---- MODULE Spec2Model ----
(***************************************************************************)
(* Model of yawf.base.WorkflowBase: the registration tables of a workflow  *)
(* definition, the registration methods that fill them and the query       *)
(* methods that read them, for a base definition and one definition        *)
(* derived from it with inherit_behaviour=True.                            *)
(*                                                                         *)
(* Python dicts are functions whose DOMAIN is the set of keys present;     *)
(* `d.get(k) is None` is `k \notin DOMAIN d` (no table ever stores None).  *)
(* Tuples of permission checkers are sets: the code only iterates them     *)
(* with any() and set.update().  An optional argument that is a collection *)
(* is <<>> for None and <<S>> for the collection S.                        *)
(***************************************************************************)
EXTENDS Naturals, Sequences, FiniteSets, TLC

VARIABLES
    cls,                 \* class-level containers of the base definition
    inst,                \* instance attributes of the derived definition
    instances,           \* the definitions constructed so far
    extra_valid_states,  \* declared extra_valid_states of each definition
    nregs,               \* number of registration calls made so far
    hreg,                \* history: last register_handler call of each definition per key
    hlast,               \* history: which definition registered each handler key last
    hdefault,            \* history: (definition, message id) registered without states_from
    areg,                \* history: last action registered per tier and key
    awild,               \* history: actions registered without states_from, per message id
    acount,              \* history: registrations that named each (from-state, message id)
    abad,                \* history: register_action calls made without states_from and states_to
    mreg,                \* history: message specs each definition registered under a new id
    mdup,                \* history: register_message calls made with an id registered before
    rreg,                \* history: first register_resource call per id with states to list
    chk,                 \* history: checkers passed to registrations, per state they named
    outcome,             \* how the last registration call ended
    qres,                \* how the last query call ended
    rcall,               \* the last invocation of a resource
    aorder               \* two register_action calls applied in both orders

vars == <<cls, inst, instances, extra_valid_states, nregs, hreg, hlast,
          hdefault, areg, awild, acount, abad, mreg, mdup, rreg, chk, outcome,
          qres, rcall, aorder>>

\* the history of each kind of registration, and of the calls that read
hhist == <<hreg, hlast, hdefault>>
ahist == <<areg, awild, acount, abad>>
mhist == <<mreg, mdup>>
reads == <<qres, rcall, aorder>>

----------------------------------------------------------------------------
(* Bounds and universes *)

MaxRegs == 2           \* registration calls other than register_action
MaxActionRegs == 3     \* register_action calls
MaxMessageRegs == 3    \* register_message calls, where only those are made
MaxQueryRegs == 1      \* registration calls made among query calls

None == "None"
INITIAL_STATE == "init"

States == {"init", "extra", "other"}     \* states a query may be asked about
ArgStates == {"init", "other"}           \* states a registration may name
Msgs == {"m1", "m2"}
Handlers == {"h1", "h2"}
Actions == {"a1", "a2"}
Checkers == {"allow_to_all", "c1", "c2"}
Objects == {"o1", "o2"}
Senders == {"alice", "bob"}
Defs == {"base", "derived"}
ResourceIds == {"r1", "r2"}
Accessors == {"acc1"}
MessageSpecs == [id : Msgs, verb : {"v1", "v2"}]

\* handler.__name__ / action.__name__
name(f) == IF f \in {"h1", "a1"} THEN "m1" ELSE "m2"

\* a permission checker applied to (obj, sender)
Call(p, obj, sender) ==
    CASE p = "allow_to_all" -> TRUE
      [] p = "c1" -> sender = "alice"
      [] p = "c2" -> obj = "o1"

StateSetArgs == {<<>>} \cup {<<S>> : S \in (SUBSET ArgStates) \ {{}}}
ResourceStateArgs == StateSetArgs \cup {<<{}>>}
ActionStateArgs == {<<>>, <<{"init"}>>, <<{"init", "other"}>>}
MessageIdArgs == {None} \cup Msgs
DefaultPermissionArgs == { [shape |-> "none", cs |-> {}] }
PermissionArgs ==
    { [shape |-> "none", cs |-> {}],
      [shape |-> "single", cs |-> {"c1"}],
      [shape |-> "many", cs |-> {"c1", "c2"}] }

----------------------------------------------------------------------------
(* Containers *)

ContainerNames ==
    { "_handlers", "_resources", "_resources_by_state",
      "_resource_checkers_by_state", "_actions", "_actions_any_destination",
      "_actions_any_startpoint", "_actions_for_possible", "_valid_states",
      "_message_specs", "_message_checkers_by_state" }

container_fabric(container_name) ==
    IF container_name = "_valid_states" THEN "set" ELSE "dict"

EmptyOf(fabric) == IF fabric = "set" THEN {} ELSE <<>>

valid_states == {INITIAL_STATE}
default_permission_checker == "allow_to_all"

Put(d, k, v) == [x \in DOMAIN d \cup {k} |-> IF x = k THEN v ELSE d[x]]

\* variant: a layered table that looks a key up in the derived layer only
MergeDictChildOnly(child, parent) == child

\* MergeDict(child, parent): a key is looked up in child first, then parent
MergeDict(child, parent) ==
    [k \in DOMAIN child \cup DOMAIN parent |->
        IF k \in DOMAIN child THEN child[k] ELSE parent[k]]

\* what the derived instance's attribute is bound to: the parent's container
\* itself ("parent") or a NewMergeDict over a fresh dict ("merged")
merge_container_fresh(container_name, fabric) ==
    [kind |-> "own", own |-> EmptyOf(fabric)]

merge_container(container_name, fabric) ==
    IF fabric = "dict"
    THEN IF container_name = "_message_specs"
         THEN [kind |-> "merged", own |-> <<>>]
         ELSE [kind |-> "parent", own |-> <<>>]
    ELSE [kind |-> "parent", own |-> {}]

\* the container self.<container_name> reads
Container(self, container_name) ==
    IF self = "base" \/ inst[container_name].kind = "parent"
    THEN cls[container_name]
    ELSE IF inst[container_name].kind = "merged"
         THEN MergeDict(inst[container_name].own, cls[container_name])
         ELSE inst[container_name].own

\* the object an item assignment through self.<container_name> mutates
WriteLayer(self, container_name) ==
    IF self = "base" \/ inst[container_name].kind = "parent"
    THEN cls[container_name]
    ELSE inst[container_name].own

Commit(self, updates) ==
    /\ cls' = [n \in ContainerNames |->
                IF n \in DOMAIN updates
                   /\ (self = "base" \/ inst[n].kind = "parent")
                THEN updates[n] ELSE cls[n]]
    /\ inst' = [n \in ContainerNames |->
                IF n \in DOMAIN updates
                   /\ ~(self = "base" \/ inst[n].kind = "parent")
                THEN [inst[n] EXCEPT !.own = updates[n]] ELSE inst[n]]

init_containers(extra) ==
    [n \in ContainerNames |->
        IF n = "_valid_states" THEN valid_states \cup extra
        ELSE EmptyOf(container_fabric(n))]

\* variant: the derived definition's own extra states are not added
init_inherited_containers_no_extra(extra) ==
    [n \in ContainerNames |->
        IF n = "_valid_states"
        THEN [kind |-> "own", own |-> cls["_valid_states"]]
        ELSE merge_container(n, container_fabric(n))]

init_inherited_containers(extra) ==
    [n \in ContainerNames |->
        IF n = "_valid_states"
        THEN [kind |-> "own", own |-> cls["_valid_states"] \cup extra]
        ELSE merge_container(n, container_fabric(n))]

----------------------------------------------------------------------------
(* Query API *)

Ok(v) == [tag |-> "ok", value |-> v]
IllegalStateError(state) == [tag |-> "IllegalStateError", value |-> state]
UnhandledMessageError(message_id, ids) ==
    [tag |-> "UnhandledMessageError", value |-> <<message_id, ids>>]

_join_checkers(permission_checkers) ==
    [a \in Objects \X Senders |->
        \E p \in permission_checkers : Call(p, a[1], a[2])]

is_valid_state(self, state) == state \in Container(self, "_valid_states")

\* variant: a state without a handler table is refused whether valid or not
is_valid_message_strict(self, state, message_id) ==
    LET handlers == Container(self, "_handlers") IN
    IF state \notin DOMAIN handlers
    THEN IllegalStateError(state)
    ELSE Ok(message_id \in DOMAIN handlers[state])

is_valid_message(self, state, message_id) ==
    LET handlers == Container(self, "_handlers") IN
    IF state \notin DOMAIN handlers
    THEN IF ~is_valid_state(self, state)
         THEN IllegalStateError(state)
         ELSE Ok(FALSE)
    ELSE Ok(message_id \in DOMAIN handlers[state])

get_available_messages(self, state) ==
    LET handlers == Container(self, "_handlers") IN
    IF state \notin DOMAIN handlers
    THEN IF ~is_valid_state(self, state)
         THEN IllegalStateError(state)
         ELSE Ok({})
    ELSE Ok({ <<handlers[state][m].permission_checkers, m>> :
                m \in DOMAIN handlers[state] })

\* variant: the error lists the keys of the handler table, not of the
\* state's own table
get_handler_listing_states(self, state, message_id) ==
    LET handlers == Container(self, "_handlers") IN
    IF state \notin DOMAIN handlers
    THEN IllegalStateError(state)
    ELSE LET lookup_result == handlers[state] IN
         IF message_id \notin DOMAIN lookup_result
         THEN UnhandledMessageError(message_id, DOMAIN handlers)
         ELSE Ok(<<_join_checkers(lookup_result[message_id].permission_checkers),
                   lookup_result[message_id].handler>>)

get_handler(self, state, message_id) ==
    LET handlers == Container(self, "_handlers") IN
    IF state \notin DOMAIN handlers
    THEN IllegalStateError(state)
    ELSE LET lookup_result == handlers[state] IN
         IF message_id \notin DOMAIN lookup_result
         THEN UnhandledMessageError(message_id, DOMAIN lookup_result)
         ELSE Ok(<<_join_checkers(lookup_result[message_id].permission_checkers),
                   lookup_result[message_id].handler>>)

callable(x) == x \in Actions

ActionTables ==
    {"_actions", "_actions_any_destination", "_actions_any_startpoint",
     "_actions_for_possible"}

\* variant: the any-destination tier is tried before the any-startpoint tier
get_action_swapped(self, from_state, to_state, message_id) ==
    LET first_key == <<from_state, to_state, message_id>>
        second_key == <<to_state, message_id>>
        last_key == <<from_state, message_id>>
        actions == Container(self, "_actions")
        any_startpoint == Container(self, "_actions_any_startpoint")
        any_destination == Container(self, "_actions_any_destination")
    IN  IF first_key \in DOMAIN actions /\ callable(actions[first_key])
        THEN Ok(actions[first_key])
        ELSE IF last_key \in DOMAIN any_destination
                /\ callable(any_destination[last_key])
        THEN Ok(any_destination[last_key])
        ELSE IF second_key \in DOMAIN any_startpoint
                /\ callable(any_startpoint[second_key])
        THEN Ok(any_startpoint[second_key])
        ELSE Ok(None)

\* the lookup of get_action, over the action tables it is given
LookupAction(tables, from_state, to_state, message_id) ==
    LET first_key == <<from_state, to_state, message_id>>
        second_key == <<to_state, message_id>>
        last_key == <<from_state, message_id>>
        actions == tables["_actions"]
        any_startpoint == tables["_actions_any_startpoint"]
        any_destination == tables["_actions_any_destination"]
    IN  IF first_key \in DOMAIN actions /\ callable(actions[first_key])
        THEN Ok(actions[first_key])
        ELSE IF second_key \in DOMAIN any_startpoint
                /\ callable(any_startpoint[second_key])
        THEN Ok(any_startpoint[second_key])
        ELSE IF last_key \in DOMAIN any_destination
                /\ callable(any_destination[last_key])
        THEN Ok(any_destination[last_key])
        ELSE Ok(None)

get_action(self, from_state, to_state, message_id) ==
    LookupAction([n \in ActionTables |-> Container(self, n)], from_state,
                 to_state, message_id)

\* variant: no fallback to the wildcard list
get_possible_actions_no_wildcard(self, from_state, message_id) ==
    LET possible == Container(self, "_actions_for_possible")
        first_key == <<from_state, message_id>>
    IN  IF first_key \in DOMAIN possible /\ possible[first_key] # <<>>
        THEN Ok(possible[first_key])
        ELSE Ok(<<>>)

get_possible_actions(self, from_state, message_id) ==
    LET possible == Container(self, "_actions_for_possible")
        first_key == <<from_state, message_id>>
        last_key == <<None, message_id>>
    IN  IF first_key \in DOMAIN possible /\ possible[first_key] # <<>>
        THEN Ok(possible[first_key])
        ELSE IF last_key \in DOMAIN possible /\ possible[last_key] # <<>>
        THEN Ok(possible[last_key])
        ELSE Ok(<<>>)

get_message_checkers_by_state(self, state) ==
    LET index == Container(self, "_message_checkers_by_state") IN
    IF state \in DOMAIN index THEN index[state] ELSE {}

get_resource_checkers_by_state(self, state) ==
    LET index == Container(self, "_resource_checkers_by_state") IN
    IF state \in DOMAIN index THEN index[state] ELSE {}

get_checkers_by_state(self, state) ==
    Ok(get_message_checkers_by_state(self, state)
         \cup get_resource_checkers_by_state(self, state))

get_available_resources(self, state) ==
    LET by_state == Container(self, "_resources_by_state") IN
    IF state \notin DOMAIN by_state
    THEN IF ~is_valid_state(self, state)
         THEN IllegalStateError(state)
         ELSE Ok({})
    ELSE Ok({ by_state[state][r] : r \in DOMAIN by_state[state] })

get_resource(self, state, resource_id) ==
    LET by_state == Container(self, "_resources_by_state") IN
    IF state \notin DOMAIN by_state
    THEN IF ~is_valid_state(self, state)
         THEN IllegalStateError(state)
         ELSE Ok(None)
    ELSE IF resource_id \in DOMAIN by_state[state]
         THEN Ok(by_state[state][resource_id])
         ELSE Ok(None)

----------------------------------------------------------------------------
(* Registry *)

\* permission_checker=None, a single callable, or an iterable of callables
NormalizeCheckers(permission_checker) ==
    IF permission_checker.shape = "none"
    THEN {default_permission_checker}
    ELSE permission_checker.cs

HandlerStates(states_from) ==
    IF states_from = <<>> THEN valid_states ELSE states_from[1]

\* variant: an occupied (state, message id) key keeps its first entry
HandlerTableKeepFirst(handlers, states, message_id, entry) ==
    [s \in DOMAIN handlers \cup states |->
        IF s \in states
        THEN IF s \in DOMAIN handlers /\ message_id \in DOMAIN handlers[s]
             THEN handlers[s]
             ELSE Put(IF s \in DOMAIN handlers THEN handlers[s] ELSE <<>>,
                      message_id, entry)
        ELSE handlers[s]]

\* variant: the table of a covered state is replaced, not added to
HandlerTableReset(handlers, states, message_id, entry) ==
    [s \in DOMAIN handlers \cup states |->
        IF s \in states
        THEN Put(<<>>, message_id, entry)
        ELSE handlers[s]]

HandlerTable(handlers, states, message_id, entry) ==
    [s \in DOMAIN handlers \cup states |->
        IF s \in states
        THEN Put(IF s \in DOMAIN handlers THEN handlers[s] ELSE <<>>,
                 message_id, entry)
        ELSE handlers[s]]

CheckerIndex(index, states, permission_checkers) ==
    [s \in DOMAIN index \cup states |->
        IF s \in states
        THEN (IF s \in DOMAIN index THEN index[s] ELSE {})
                \cup permission_checkers
        ELSE index[s]]

register_handler(self, message_id, states_from, permission_checker, handler) ==
    LET permission_checkers == NormalizeCheckers(permission_checker)
        states == HandlerStates(states_from)
        mid == IF message_id = None THEN name(handler) ELSE message_id
        entry == [permission_checkers |-> permission_checkers,
                  handler |-> handler]
    IN  /\ Commit(self,
              "_handlers" :>
                  HandlerTable(WriteLayer(self, "_handlers"), states, mid, entry)
              @@ "_message_checkers_by_state" :>
                  CheckerIndex(WriteLayer(self, "_message_checkers_by_state"),
                               states, permission_checkers))
        \* history of the call, as made: the keys it was asked to cover
        /\ hreg' = [hreg EXCEPT ![self] =
                      [k \in DOMAIN @ \cup (states \X {mid}) |->
                          IF k \in states \X {mid} THEN entry ELSE @[k]]]
        /\ hlast' = [k \in DOMAIN hlast \cup (states \X {mid}) |->
                          IF k \in states \X {mid} THEN self ELSE hlast[k]]
        /\ hdefault' = IF states_from = <<>>
                       THEN hdefault \cup {<<self, mid>>} ELSE hdefault
        /\ chk' = [s \in States |->
                     IF s \in states THEN chk[s] \cup permission_checkers
                     ELSE chk[s]]
        /\ outcome' = "ok"

\* d[k] = v for every k in keys
PutAll(d, keys, v) ==
    [k \in DOMAIN d \cup keys |-> IF k \in keys THEN v ELSE d[k]]

\* d.setdefault(k, []).append(v), n times, for every k in keys
AppendAll(d, keys, v, n) ==
    [k \in DOMAIN d \cup (IF n > 0 THEN keys ELSE {}) |->
        LET old == IF k \in DOMAIN d THEN d[k] ELSE <<>> IN
        IF k \in keys
        THEN [i \in 1..(Len(old) + n) |-> IF i <= Len(old) THEN old[i] ELSE v]
        ELSE old]

\* number of times the both-given branch appends under one from-state
ExactAppends(states_to) == Cardinality(states_to)

\* variant: a registration with both state lists also stores the action in
\* the any-destination tier under its from-states
ActionWritesFallThrough(tables, mid, states_from, states_to, action) ==
    IF states_to = <<>>
    THEN LET keys == states_from[1] \X {mid} IN
         [tables EXCEPT
            !["_actions_any_destination"] = PutAll(@, keys, action),
            !["_actions_for_possible"] = AppendAll(@, keys, action, 1)]
    ELSE IF states_from = <<>>
    THEN LET keys == states_to[1] \X {mid} IN
         [tables EXCEPT
            !["_actions_any_startpoint"] = PutAll(@, keys, action),
            !["_actions_for_possible"] =
                AppendAll(@, {<<None, mid>>}, action, 1)]
    ELSE LET keys == states_from[1] \X states_to[1] \X {mid} IN
         [tables EXCEPT
            !["_actions"] = PutAll(@, keys, action),
            !["_actions_any_destination"] =
                PutAll(@, states_from[1] \X {mid}, action),
            !["_actions_for_possible"] =
                AppendAll(@, states_from[1] \X {mid}, action,
                          ExactAppends(states_to[1]))]

\* the four action tables after the registrator's writes, from the tables
\* before them
ActionWrites(tables, mid, states_from, states_to, action) ==
    IF states_to = <<>>
    THEN LET keys == states_from[1] \X {mid} IN
         [tables EXCEPT
            !["_actions_any_destination"] = PutAll(@, keys, action),
            !["_actions_for_possible"] = AppendAll(@, keys, action, 1)]
    ELSE IF states_from = <<>>
    THEN LET keys == states_to[1] \X {mid} IN
         [tables EXCEPT
            !["_actions_any_startpoint"] = PutAll(@, keys, action),
            !["_actions_for_possible"] =
                AppendAll(@, {<<None, mid>>}, action, 1)]
    ELSE LET keys == states_from[1] \X states_to[1] \X {mid} IN
         [tables EXCEPT
            !["_actions"] = PutAll(@, keys, action),
            !["_actions_for_possible"] =
                AppendAll(@, states_from[1] \X {mid}, action,
                          ExactAppends(states_to[1]))]

\* the decorator register_action returns, applied to the action
register_action_registrator(self, message_id, states_from, states_to, action) ==
    LET mid == IF message_id = None THEN name(action) ELSE message_id IN
    /\ outcome' = "ok"
    /\ abad' = abad
    /\ Commit(self,
          ActionWrites([n \in ActionTables |-> WriteLayer(self, n)], mid,
                       states_from, states_to, action))
    /\ IF states_to = <<>>
       THEN LET keys == states_from[1] \X {mid} IN
            /\ areg' = [areg EXCEPT !["any_destination"] = PutAll(@, keys, action)]
            /\ awild' = awild
            /\ acount' = [k \in DOMAIN acount \cup keys |->
                            (IF k \in DOMAIN acount THEN acount[k] ELSE 0)
                            + (IF k \in keys THEN 1 ELSE 0)]
       ELSE IF states_from = <<>>
       THEN LET keys == states_to[1] \X {mid} IN
            /\ areg' = [areg EXCEPT !["any_startpoint"] = PutAll(@, keys, action)]
            /\ awild' = [awild EXCEPT ![mid] = Append(@, action)]
            /\ acount' = acount
       ELSE LET keys == states_from[1] \X states_to[1] \X {mid} IN
            /\ areg' = [areg EXCEPT !["exact"] = PutAll(@, keys, action)]
            /\ awild' = awild
            /\ acount' = [k \in DOMAIN acount \cup (states_from[1] \X {mid}) |->
                            (IF k \in DOMAIN acount THEN acount[k] ELSE 0)
                            + (IF k \in states_from[1] \X {mid} THEN 1 ELSE 0)]

\* variant: the missing-argument check is absent and the call returns a
\* decorator that registers nothing
register_action_unchecked(self, message_id, states_from, states_to, action) ==
    IF states_from = <<>> /\ states_to = <<>>
    THEN /\ outcome' = "ok"
         /\ abad' = abad + 1
         /\ Commit(self,
               "_actions_for_possible" :>
                   AppendAll(WriteLayer(self, "_actions_for_possible"),
                             {<<None, IF message_id = None THEN name(action)
                                      ELSE message_id>>}, action, 1))
         /\ UNCHANGED <<areg, awild, acount>>
    ELSE register_action_registrator(self, message_id, states_from, states_to,
                                     action)

register_action(self, message_id, states_from, states_to, action) ==
    IF states_from = <<>> /\ states_to = <<>>
    THEN /\ outcome' = "ValueError"
         /\ abad' = abad + 1
         /\ UNCHANGED <<cls, inst, areg, awild, acount>>
    ELSE register_action_registrator(self, message_id, states_from, states_to,
                                     action)

\* WorkflowResource.__init__(self, handler, resource_id, permission_checkers,
\* description=None) called with the keyword arguments `keywords`
WorkflowResourceParams ==
    {"handler", "resource_id", "permission_checkers", "description"}

WorkflowResource(handler, resource_id, permission_checkers, keywords) ==
    IF ~(keywords \subseteq WorkflowResourceParams)
    THEN [tag |-> "TypeError", value |-> None]
    ELSE Ok([id |-> resource_id, handler |-> handler,
             checkers |-> permission_checkers])

ResourceTable(by_state, states, resource_id, resource) ==
    [s \in DOMAIN by_state \cup states |->
        IF s \in states
        THEN Put(IF s \in DOMAIN by_state THEN by_state[s] ELSE <<>>,
                 resource_id, resource)
        ELSE by_state[s]]

register_resource(self, resource_id, available_in_states, permission_checker, handler) ==
    LET permission_checkers == NormalizeCheckers(permission_checker)
        states == IF available_in_states = <<>>
                  THEN Container(self, "_valid_states")
                  ELSE available_in_states[1]
        made == WorkflowResource(handler, resource_id, permission_checkers,
                    {"resource_id", "description", "permission_checkers",
                     "slug"})
        \* history of the call, as made: a call that lists states for an id
        \* not registered before
        first == states # {} /\ resource_id \notin DOMAIN rreg
    IN  /\ rreg' = IF first
                   THEN Put(rreg, resource_id,
                            [states |-> states, handler |-> handler,
                             checkers |-> permission_checkers])
                   ELSE rreg
        /\ chk' = [s \in States |->
                     IF first /\ s \in states
                     THEN chk[s] \cup permission_checkers ELSE chk[s]]
        /\ IF states = {}
           THEN outcome' = "ValueError" /\ UNCHANGED <<cls, inst>>
           ELSE IF resource_id \in DOMAIN Container(self, "_resources")
           THEN outcome' = "ValueError" /\ UNCHANGED <<cls, inst>>
           ELSE IF made.tag # "ok"
           THEN outcome' = made.tag /\ UNCHANGED <<cls, inst>>
           ELSE /\ outcome' = "ok"
                /\ Commit(self,
                      "_resources" :>
                          Put(WriteLayer(self, "_resources"), resource_id,
                              made.value)
                      @@ "_resources_by_state" :>
                          ResourceTable(WriteLayer(self, "_resources_by_state"),
                                        states, resource_id, made.value)
                      @@ "_resource_checkers_by_state" :>
                          CheckerIndex(
                              WriteLayer(self, "_resource_checkers_by_state"),
                              states, permission_checkers))

register_message(self, message_spec) ==
    /\ IF message_spec.id \in DOMAIN Container(self, "_message_specs")
       THEN outcome' = "ValueError" /\ UNCHANGED <<cls, inst>>
       ELSE /\ outcome' = "ok"
            /\ Commit(self,
                  "_message_specs" :>
                      Put(WriteLayer(self, "_message_specs"), message_spec.id,
                          message_spec))
    \* history of the call, as made: a spec whose id neither this definition
    \* nor (for the derived one) its parent registered before
    /\ IF \/ message_spec.id \in DOMAIN mreg[self]
          \/ (self = "derived" /\ message_spec.id \in DOMAIN mreg["base"])
       THEN /\ mdup' = mdup \cup {<<self, message_spec.id>>}
            /\ mreg' = mreg
       ELSE /\ mreg' = [mreg EXCEPT ![self] = Put(@, message_spec.id, message_spec)]
            /\ mdup' = mdup

\* variant: only the layer the definition writes to is looked in
get_message_spec_own_layer(self, message_id) ==
    LET specs == WriteLayer(self, "_message_specs") IN
    IF message_id \notin DOMAIN specs
    THEN [tag |-> "MessageSpecNotRegisteredError", value |-> message_id]
    ELSE Ok(specs[message_id])

get_message_spec(self, message_id) ==
    LET specs == Container(self, "_message_specs") IN
    IF message_id \notin DOMAIN specs
    THEN [tag |-> "MessageSpecNotRegisteredError", value |-> message_id]
    ELSE Ok(specs[message_id])

----------------------------------------------------------------------------
(* Actions *)

ExtraChoices == SUBSET {"extra"}
DerivedExtraChoices == SUBSET {"other"}

Init ==
    /\ \E e \in ExtraChoices :
          /\ extra_valid_states = [d \in Defs |-> IF d = "base" THEN e ELSE {}]
          /\ cls = init_containers(e)
    /\ inst = [n \in ContainerNames |-> [kind |-> "unset", own |-> <<>>]]
    /\ instances = {"base"}
    /\ nregs = 0
    /\ hreg = [d \in Defs |-> <<>>]
    /\ hlast = <<>>
    /\ hdefault = {}
    /\ areg = [t \in {"exact", "any_startpoint", "any_destination"} |-> <<>>]
    /\ awild = [m \in Msgs |-> <<>>]
    /\ acount = <<>>
    /\ abad = 0
    /\ mreg = [d \in Defs |-> <<>>]
    /\ mdup = {}
    /\ rreg = <<>>
    /\ chk = [s \in States |-> {}]
    /\ outcome = "ok"
    /\ qres = None
    /\ rcall = <<>>
    /\ aorder = <<>>

\* Derived(inherit_behaviour=True)
CreateDerived ==
    /\ "derived" \notin instances
    /\ \E e \in DerivedExtraChoices :
          /\ inst' = init_inherited_containers(e)
          /\ extra_valid_states' = [extra_valid_states EXCEPT !["derived"] = e]
    /\ instances' = instances \cup {"derived"}
    /\ UNCHANGED <<cls, nregs, hhist, ahist, mhist, rreg, chk, outcome, reads>>

\* a register_handler call whose permission_checker is one of permission_args
RegisterHandlerWith(self, permission_args) ==
    /\ self \in instances
    /\ \E message_id \in MessageIdArgs, states_from \in StateSetArgs,
          permission_checker \in permission_args, handler \in Handlers :
          register_handler(self, message_id, states_from, permission_checker,
                           handler)
    /\ nregs' = nregs + 1
    /\ UNCHANGED <<instances, extra_valid_states, ahist, mhist, rreg, reads>>

RegisterHandler(self) == RegisterHandlerWith(self, PermissionArgs)

RegisterAction(self) ==
    /\ self \in instances
    /\ \E message_id \in MessageIdArgs, states_from \in ActionStateArgs,
          states_to \in ActionStateArgs, action \in Actions :
          register_action(self, message_id, states_from, states_to, action)
    /\ nregs' = nregs + 1
    /\ UNCHANGED <<instances, extra_valid_states, hhist, mhist, rreg, chk, reads>>

\* a register_resource call whose permission_checker is one of permission_args
RegisterResourceWith(self, permission_args) ==
    /\ self \in instances
    /\ \E resource_id \in ResourceIds, available_in_states \in ResourceStateArgs,
          permission_checker \in permission_args, handler \in Accessors :
          register_resource(self, resource_id, available_in_states,
                            permission_checker, handler)
    /\ nregs' = nregs + 1
    /\ UNCHANGED <<instances, extra_valid_states, hhist, ahist, mhist, reads>>

RegisterResource(self) == RegisterResourceWith(self, PermissionArgs)

RegisterMessage(self) ==
    /\ self \in instances
    /\ \E message_spec \in MessageSpecs : register_message(self, message_spec)
    /\ nregs' = nregs + 1
    /\ UNCHANGED <<instances, extra_valid_states, hhist, ahist, rreg, chk, reads>>

\* register_handler calls on one definition
NextHandlers == nregs < MaxRegs /\ RegisterHandler("base")

\* register_action calls on one definition
NextActions == nregs < MaxActionRegs /\ RegisterAction("base")

SpecActions == Init /\ [][NextActions]_vars

\* register_handler calls on a definition and on one derived from it
NextInherit ==
    \/ CreateDerived
    \/ nregs < MaxRegs /\ \E self \in Defs : RegisterHandler(self)

SpecInherit == Init /\ [][NextInherit]_vars

\* every registration method, on both definitions
Next ==
    \/ CreateDerived
    \/ nregs < MaxRegs /\ \E self \in Defs : RegisterHandler(self)
    \/ nregs < MaxRegs /\ \E self \in Defs : RegisterAction(self)
    \/ nregs < MaxRegs /\ \E self \in Defs : RegisterResource(self)
    \/ nregs < MaxRegs /\ \E self \in Defs : RegisterMessage(self)

Spec == Init /\ [][Next]_vars

SpecHandlers == Init /\ [][NextHandlers]_vars

----------------------------------------------------------------------------
(* Properties *)

\* the message ids some register_handler call of definition d covered at state s
RegisteredIds(d, s) == { k[2] : k \in { k \in DOMAIN hreg[d] : k[1] = s } }

ListAt(d, k) == IF k \in DOMAIN d THEN d[k] ELSE <<>>

\* C1: for every (state, message id) key that a register_handler call of the
\* definition covered, get_handler returns the handler of the most recent
\* such call and a predicate that is true for (object, sender) exactly when
\* one of that call's permission checkers is true for (object, sender).
C1_GetHandlerReturnsLastRegistration ==
    \A k \in DOMAIN hreg["base"] :
        LET r == get_handler("base", k[1], k[2]) IN
        /\ r.tag = "ok"
        /\ r.value[2] = hreg["base"][k].handler
        /\ \A o \in Objects, sender \in Senders :
              r.value[1][<<o, sender>>] =
                 (\E p \in hreg["base"][k].permission_checkers :
                      Call(p, o, sender))

\* a key registered twice: first with the default checker, then with (c1, c2)
C1_Witness ==
    /\ nregs = 2
    /\ \E s \in States :
          /\ <<s, "m1">> \in DOMAIN hreg["base"]
          /\ hreg["base"][<<s, "m1">>].permission_checkers = {"c1", "c2"}
          /\ RegisteredIds("base", s) = {"m1"}
          /\ "allow_to_all" \in get_message_checkers_by_state("base", s)
          /\ get_handler("base", s, "m1").value[2] = "h2"
          /\ ~get_handler("base", s, "m1").value[1][<<"o2", "bob">>]
          /\ get_handler("base", s, "m1").value[1][<<"o2", "alice">>]

\* C2: for every state outside the valid-state set, every query taking a
\* state raises IllegalState.
C2_InvalidStateAlwaysRaises ==
    \A d \in instances, s \in States :
        ~is_valid_state(d, s) =>
            /\ \A m \in Msgs :
                  /\ is_valid_message(d, s, m).tag = "IllegalStateError"
                  /\ get_handler(d, s, m).tag = "IllegalStateError"
                  /\ get_possible_actions(d, s, m).tag = "IllegalStateError"
                  /\ \A t \in States :
                        /\ get_action(d, s, t, m).tag = "IllegalStateError"
                        /\ get_action(d, t, s, m).tag = "IllegalStateError"
            /\ get_available_messages(d, s).tag = "IllegalStateError"
            /\ get_available_resources(d, s).tag = "IllegalStateError"
            /\ \A r \in ResourceIds :
                  get_resource(d, s, r).tag = "IllegalStateError"
            /\ get_checkers_by_state(d, s).tag = "IllegalStateError"

\* the states that occur as a key or key component in the tables of d
TableStates(d) ==
    DOMAIN Container(d, "_handlers")
    \cup { k[1] : k \in DOMAIN Container(d, "_actions") }
    \cup { k[2] : k \in DOMAIN Container(d, "_actions") }
    \cup { k[1] : k \in DOMAIN Container(d, "_actions_any_destination") }
    \cup { k[1] : k \in DOMAIN Container(d, "_actions_any_startpoint") }
    \cup ({ k[1] : k \in DOMAIN Container(d, "_actions_for_possible") }
            \ {None})
    \cup DOMAIN Container(d, "_resources_by_state")
    \cup DOMAIN Container(d, "_message_checkers_by_state")
    \cup DOMAIN Container(d, "_resource_checkers_by_state")

\* C3: every state that is a key or key component of a table is a member of
\* the valid-state set.
C3_TableStatesAreValid ==
    \A d \in instances : \A s \in TableStates(d) : is_valid_state(d, s)

\* C4: get_action returns the action registered in the exact tier under
\* (from, to, msg) if any, else the one registered in the any-startpoint tier
\* under (to, msg) if any, else the one registered in the any-destination
\* tier under (from, msg) if any, else None; it never raises.
C4_GetActionTiers ==
    \A f \in States, t \in States, m \in Msgs :
        get_action("base", f, t, m) =
            Ok(IF <<f, t, m>> \in DOMAIN areg["exact"]
               THEN areg["exact"][<<f, t, m>>]
               ELSE IF <<t, m>> \in DOMAIN areg["any_startpoint"]
               THEN areg["any_startpoint"][<<t, m>>]
               ELSE IF <<f, m>> \in DOMAIN areg["any_destination"]
               THEN areg["any_destination"][<<f, m>>]
               ELSE None)

\* all three tiers hold an entry matching (init, init, m1); exact and
\* any-startpoint hold different actions; and at (init, other-destination)
\* only the lower tiers match
C4_Witness ==
    /\ <<"init", "init", "m1">> \in DOMAIN areg["exact"]
    /\ <<"init", "m1">> \in DOMAIN areg["any_startpoint"]
    /\ <<"init", "m1">> \in DOMAIN areg["any_destination"]
    /\ areg["exact"][<<"init", "init", "m1">>] = "a1"
    /\ areg["any_startpoint"][<<"init", "m1">>] = "a2"
    /\ get_action("base", "init", "init", "m1") = Ok("a1")
    /\ get_action("base", "other", "init", "m1") = Ok("a2")
    /\ get_action("base", "init", "extra", "m1").value \in Actions
    /\ get_action("base", "extra", "extra", "m1") = Ok(None)

\* C5: a registration made on the derived definition leaves every
\* mapping-typed table of the parent definition as it was.
C5_DerivedRegistrationKeepsParent ==
    [][ (\/ RegisterHandler("derived")
         \/ RegisterAction("derived")
         \/ RegisterResource("derived")
         \/ RegisterMessage("derived"))
        => \A n \in ContainerNames \ {"_valid_states"} : cls'[n] = cls[n] ]_vars

\* C6: where the parent has a handler registered for a key and the derived
\* definition has registered none, get_handler on the derived definition
\* returns the parent's handler; where the derived definition has then
\* registered its own, get_handler on the derived definition returns that one.
C6_DerivedResolvesHandlers ==
    "derived" \in instances =>
        \A k \in DOMAIN hreg["base"] :
            LET r == get_handler("derived", k[1], k[2]) IN
            /\ k \notin DOMAIN hreg["derived"]
                  => r.tag = "ok" /\ r.value[2] = hreg["base"][k].handler
            /\ (k \in DOMAIN hreg["derived"] /\ hlast[k] = "derived")
                  => r.tag = "ok" /\ r.value[2] = hreg["derived"][k].handler

\* the parent registered h1 at two keys and the derived definition then
\* registered h2 at one of them
C6_Witness ==
    /\ "derived" \in instances
    /\ \E k1 \in DOMAIN hreg["base"], k2 \in DOMAIN hreg["base"] :
          /\ hreg["base"][k1].handler = "h1"
          /\ hreg["base"][k2].handler = "h1"
          /\ k1 \notin DOMAIN hreg["derived"]
          /\ k2 \in DOMAIN hreg["derived"]
          /\ hlast[k2] = "derived"
          /\ hreg["derived"][k2].handler = "h2"
          /\ get_handler("derived", k1[1], k1[2]).value[2] = "h1"
          /\ get_handler("derived", k2[1], k2[2]).value[2] = "h2"

\* C7: at a valid state, for a message id with no handler registered there,
\* get_handler raises UnhandledMessage carrying that id and exactly the ids
\* registered at that state; it raises IllegalState only for invalid states.
C7_UnhandledMessageAtValidState ==
    \A s \in States, m \in Msgs :
        LET r == get_handler("base", s, m) IN
        /\ (is_valid_state("base", s) /\ m \notin RegisteredIds("base", s))
              => r = UnhandledMessageError(m, RegisteredIds("base", s))
        /\ r.tag = "IllegalStateError" => ~is_valid_state("base", s)

\* C8: after register_handler without states_from for a message id,
\* is_valid_message(s, id) is true at every valid state s of the definition.
C8_DefaultCoversEveryValidState ==
    \A c \in hdefault :
        \A s \in States :
            is_valid_state(c[1], s)
               => is_valid_message(c[1], s, c[2]) = Ok(TRUE)

\* C9: get_possible_actions(from, msg) is the list appended under (from, msg)
\* when non-empty, else the list appended under (None, msg) when non-empty,
\* else empty; when only registrations without states_from exist for msg it
\* is the list of those registrations for every from-state.
C9_GetPossibleActions ==
    LET possible == cls["_actions_for_possible"] IN
    \A f \in States, m \in Msgs :
        /\ get_possible_actions("base", f, m) =
              Ok(IF ListAt(possible, <<f, m>>) # <<>>
                 THEN ListAt(possible, <<f, m>>)
                 ELSE IF ListAt(possible, <<None, m>>) # <<>>
                 THEN ListAt(possible, <<None, m>>)
                 ELSE <<>>)
        /\ (\A k \in DOMAIN acount : k[2] # m)
              => get_possible_actions("base", f, m) = Ok(awild[m])

\* both a from-specific list and a wildcard list exist for m1, and only a
\* wildcard list (of two registrations) for m2
C9_Witness ==
    /\ ListAt(cls["_actions_for_possible"], <<"init", "m1">>) # <<>>
    /\ awild["m1"] # <<>>
    /\ get_possible_actions("base", "init", "m1") # Ok(awild["m1"])
    /\ get_possible_actions("base", "other", "m1") = Ok(awild["m1"])
    /\ (\A k \in DOMAIN acount : k[2] # "m2")
    /\ awild["m2"] # <<>>
    /\ get_possible_actions("base", "extra", "m2") = Ok(awild["m2"])

\* C10: a registration with both states_from and states_to stores the action
\* under every (from, to, msg) of the cross-product and adds exactly one
\* entry per from-state to the possible-actions list of (from, msg).
C10_OneEntryPerFromState ==
    /\ \A k \in DOMAIN areg["exact"] :
          /\ k \in DOMAIN cls["_actions"]
          /\ cls["_actions"][k] = areg["exact"][k]
    /\ \A k \in DOMAIN acount :
          Len(ListAt(cls["_actions_for_possible"], k)) = acount[k]

----------------------------------------------------------------------------
(* Message specs of a definition and of one derived from it *)

NextMessages ==
    \/ CreateDerived
    \/ nregs < MaxMessageRegs /\ \E self \in Defs : RegisterMessage(self)

SpecMessages == Init /\ [][NextMessages]_vars

\* C12: a register_message call with an id that is already registered (for the
\* derived definition also one registered by the parent only) raises the
\* registration error and leaves the message-spec tables unchanged, and a
\* register_message call the derived definition makes with a new id succeeds
\* and leaves the parent's table unchanged.
C12_DuplicateMessageRejected ==
    [][nregs' = nregs + 1 =>
         /\ mreg' = mreg =>
               /\ outcome' = "ValueError"
               /\ cls'["_message_specs"] = cls["_message_specs"]
               /\ inst'["_message_specs"] = inst["_message_specs"]
         /\ mreg'["derived"] # mreg["derived"] =>
               /\ outcome' = "ok"
               /\ cls'["_message_specs"] = cls["_message_specs"]
               /\ DOMAIN inst'["_message_specs"].own = DOMAIN mreg'["derived"]
    ]_vars

\* the derived definition was refused an id only its parent registered, and
\* had registered another id itself before
C12_Witness ==
    /\ outcome = "ValueError"
    /\ \E message_id \in DOMAIN mreg["base"] \ DOMAIN mreg["derived"] :
          <<"derived", message_id>> \in mdup
    /\ mreg["derived"] # <<>>
    /\ DOMAIN cls["_message_specs"] = DOMAIN mreg["base"]

----------------------------------------------------------------------------
(* Resources *)

\* C11: after any sequence of register_resource calls, each resource id maps
\* in the resource-by-id table to the resource of the first registration made
\* for it: the first call that named the id with states to list stores its
\* accessor and checkers under the id, and later calls for the id change
\* nothing.
C11_FirstResourceRegistrationKept ==
    \A resource_id \in DOMAIN rreg :
        /\ resource_id \in DOMAIN cls["_resources"]
        /\ cls["_resources"][resource_id].handler = rreg[resource_id].handler
        /\ cls["_resources"][resource_id].checkers = rreg[resource_id].checkers

----------------------------------------------------------------------------
(* Arguments register_action refuses *)

\* C13: a register_action call that gives neither states_from nor states_to
\* raises the configuration error at once and leaves the three action tables
\* and the possible-actions index unchanged.
C13_MissingStatesRejected ==
    [][abad' = abad + 1 =>
         /\ outcome' = "ValueError"
         /\ \A n \in ActionTables : cls'[n] = cls[n] /\ inst'[n] = inst[n]
    ]_vars

\* such a call was refused after actions had been registered in the tables
C13_Witness ==
    /\ abad > 0
    /\ outcome = "ValueError"
    /\ cls["_actions"] # <<>>
    /\ cls["_actions_for_possible"] # <<>>

----------------------------------------------------------------------------
(* Resources by state *)

\* the resource a registration of resource_id, recorded in rreg, stands for
RegisteredResource(resource_id) ==
    [id |-> resource_id, handler |-> rreg[resource_id].handler,
     checkers |-> rreg[resource_id].checkers]

ResourcesListing(state) ==
    {resource_id \in DOMAIN rreg : state \in rreg[resource_id].states}

\* C14: after a registration of resource id R with available states A, at
\* every valid state s get_available_resources(s) yields exactly the resources
\* registered with s among their available states (none for a state with
\* none), and get_resource(s, R) returns the resource for s in A and null,
\* without raising, for s outside A.
C14_RegisteredResourceIsServed ==
    \A state \in States : is_valid_state("base", state) =>
        /\ get_available_resources("base", state)
             = Ok({RegisteredResource(r) : r \in ResourcesListing(state)})
        /\ \A resource_id \in DOMAIN rreg :
              get_resource("base", state, resource_id)
                = IF state \in rreg[resource_id].states
                  THEN Ok(RegisteredResource(resource_id))
                  ELSE Ok(None)

----------------------------------------------------------------------------
(* Invoking a resource *)

Requests == {"req1", "req2"}

\* AndChecker(*permission_checkers): true when every checker is
AndChecker(permission_checkers) ==
    [a \in Objects \X Senders |->
        \A p \in permission_checkers : Call(p, a[1], a[2])]

\* what the accessor returns for its arguments
Apply(handler, request, obj, sender) == <<handler, request, obj, sender>>

ResourcePermissionDeniedError(resource_id, obj, sender) ==
    [tag |-> "ResourcePermissionDeniedError",
     value |-> <<resource_id, obj, sender>>]

\* variant: the accessor runs first and its value is dropped when the
\* checkers refuse
WorkflowResource__call__unguarded(resource, request, obj, sender) ==
    [result |-> IF AndChecker(resource.checkers)[<<obj, sender>>]
                THEN Ok(Apply(resource.handler, request, obj, sender))
                ELSE ResourcePermissionDeniedError(resource.id, obj, sender),
     called |-> 1]

\* WorkflowResource.__call__: the outcome of the call and the number of times
\* it called the accessor
WorkflowResource__call__(resource, request, obj, sender) ==
    IF AndChecker(resource.checkers)[<<obj, sender>>]
    THEN [result |-> Ok(Apply(resource.handler, request, obj, sender)),
          called |-> 1]
    ELSE [result |-> ResourcePermissionDeniedError(resource.id, obj, sender),
          called |-> 0]

\* a resource built by WorkflowResource(handler, resource_id,
\* permission_checkers) is called with (request, obj, sender)
InvokeResource ==
    /\ \E handler \in Accessors, resource_id \in ResourceIds,
          permission_checkers \in SUBSET Checkers, request \in Requests,
          obj \in Objects, sender \in Senders :
          LET made == WorkflowResource(handler, resource_id,
                          permission_checkers,
                          {"handler", "resource_id", "permission_checkers"})
              got == WorkflowResource__call__(made.value, request, obj, sender)
          IN  rcall' = <<[resource |-> made.value, request |-> request,
                          obj |-> obj, sender |-> sender,
                          result |-> got.result, called |-> got.called]>>
    /\ UNCHANGED <<cls, inst, instances, extra_valid_states, nregs, hhist,
                   ahist, mhist, rreg, chk, outcome, qres, aorder>>

NextInvoke == InvokeResource

SpecInvoke == Init /\ [][NextInvoke]_vars

\* C15: invoking a resource with (request, object, sender) calls the accessor
\* and returns its value exactly when every permission checker of the resource
\* is true for (object, sender); otherwise the call raises
\* ResourcePermissionDenied and the accessor is not called.
C15_ResourceCallGuarded ==
    \A c \in {rcall[i] : i \in DOMAIN rcall} :
        IF \A p \in c.resource.checkers : Call(p, c.obj, c.sender)
        THEN /\ c.result = Ok(Apply(c.resource.handler, c.request, c.obj,
                                    c.sender))
             /\ c.called = 1
        ELSE /\ c.result.tag = "ResourcePermissionDeniedError"
             /\ c.called = 0

\* a call was refused although one of the resource's two checkers allowed it
C15_Witness ==
    \E c \in {rcall[i] : i \in DOMAIN rcall} :
        /\ c.resource.checkers = {"c1", "c2"}
        /\ Call("c1", c.obj, c.sender)
        /\ ~Call("c2", c.obj, c.sender)
        /\ c.result.tag = "ResourcePermissionDeniedError"

----------------------------------------------------------------------------
(* Valid states without handlers *)

\* C16: for a valid state at which no handler has been registered,
\* get_available_messages(state) is empty and is_valid_message(state, id) is
\* false for every message id, and neither call raises.
C16_ValidStateWithoutHandlers ==
    \A state \in States :
        is_valid_state("base", state) /\ RegisteredIds("base", state) = {} =>
            /\ get_available_messages("base", state) = Ok({})
            /\ \A message_id \in Msgs \cup Handlers :
                  is_valid_message("base", state, message_id) = Ok(FALSE)

\* a valid state is left without handlers while another state has some
C16_Witness ==
    /\ is_valid_state("base", "extra")
    /\ RegisteredIds("base", "extra") = {}
    /\ RegisteredIds("base", "init") # {}
    /\ get_available_messages("base", "extra") = Ok({})

----------------------------------------------------------------------------
(* Valid states of a derived definition *)

\* C17: a derived definition's valid-state set is the parent's valid-state set
\* together with the derived definition's own extra states, and creating the
\* derived definition leaves the parent's valid-state set as it was built.
C17_DerivedValidStates ==
    /\ \A state \in States :
          is_valid_state("base", state)
            <=> state \in valid_states \cup extra_valid_states["base"]
    /\ "derived" \in instances =>
          \A state \in States :
              is_valid_state("derived", state)
                <=> \/ is_valid_state("base", state)
                    \/ state \in extra_valid_states["derived"]

\* the derived definition has a valid state of its own, its parent another
C17_Witness ==
    /\ "derived" \in instances
    /\ is_valid_state("derived", "other") /\ ~is_valid_state("base", "other")
    /\ is_valid_state("derived", "extra") /\ is_valid_state("base", "extra")
    /\ nregs > 0

----------------------------------------------------------------------------
(* Checkers by state *)

NextCheckers ==
    \/ nregs < MaxRegs /\ RegisterHandler("base")
    \/ nregs < MaxRegs /\ RegisterResource("base")

SpecCheckers == Init /\ [][NextCheckers]_vars

\* C18: get_checkers_by_state(s) is the set of every permission checker passed
\* to a register_handler registration that covered s or to a register_resource
\* registration that listed s, each once, and is empty when there was neither.
C18_CheckersByState ==
    \A state \in States : get_checkers_by_state("base", state) = Ok(chk[state])

----------------------------------------------------------------------------
(* Query calls *)

QueryMethods ==
    {"is_valid_state", "is_valid_message", "get_handler", "get_action",
     "get_possible_actions", "get_available_messages",
     "get_available_resources", "get_resource", "get_checkers_by_state",
     "get_message_spec"}

QueryToStates == {"init"}     \* to_state of get_action
QueryIds == {"m1", "r1"}      \* message id or resource id asked about

\* what the call self.<method>(...) returns or raises
QueryResult(self, method, state, to_state, id) ==
    CASE method = "is_valid_state" -> Ok(is_valid_state(self, state))
      [] method = "is_valid_message" -> is_valid_message(self, state, id)
      [] method = "get_handler" -> get_handler(self, state, id)
      [] method = "get_action" -> get_action(self, state, to_state, id)
      [] method = "get_possible_actions" -> get_possible_actions(self, state, id)
      [] method = "get_available_messages" -> get_available_messages(self, state)
      [] method = "get_available_resources" -> get_available_resources(self, state)
      [] method = "get_resource" -> get_resource(self, state, id)
      [] method = "get_checkers_by_state" -> get_checkers_by_state(self, state)
      [] method = "get_message_spec" -> get_message_spec(self, id)

\* variant: get_checkers_by_state reads the message-checker index with
\* setdefault(state, set())
QueryWritesSetdefault(self, method, state) ==
    IF method = "get_checkers_by_state"
    THEN "_message_checkers_by_state" :>
             Put(WriteLayer(self, "_message_checkers_by_state"), state,
                 get_message_checkers_by_state(self, state))
    ELSE <<>>

\* the item assignments the call self.<method>(...) makes to the containers:
\* the query methods read with .get, `in` and indexing only
QueryWrites(self, method, state) == <<>>

Query(self) ==
    /\ self \in instances
    /\ \E method \in QueryMethods, state \in States,
          to_state \in QueryToStates, id \in QueryIds :
          /\ qres' = QueryResult(self, method, state, to_state, id).tag
          /\ Commit(self, QueryWrites(self, method, state))
    /\ UNCHANGED <<instances, extra_valid_states, nregs, hhist, ahist, mhist,
                   rreg, chk, outcome, rcall, aorder>>

NextQueries ==
    \/ nregs < MaxQueryRegs /\ RegisterHandler("base")
    \/ nregs < MaxQueryRegs /\ RegisterAction("base")
    \/ nregs < MaxQueryRegs /\ RegisterMessage("base")
    \/ Query("base")

SpecQueries == Init /\ [][NextQueries]_vars

\* C19: every Query API call, whether it returns or raises, leaves every table
\* and index and the valid-state set unchanged.
C19_QueriesLeaveTablesUnchanged ==
    [][nregs' = nregs => cls' = cls /\ inst' = inst]_vars

\* a query raised, and another returned, over tables that registrations filled
C19_Witness ==
    /\ qres = "UnhandledMessageError"
    /\ cls["_handlers"] # <<>>
    /\ cls["_message_checkers_by_state"] # <<>>

----------------------------------------------------------------------------
(* Looking a message spec up *)

\* the ids with a registered spec, as definition d sees them
RegisteredSpecIds(d) ==
    DOMAIN mreg[d] \cup (IF d = "derived" THEN DOMAIN mreg["base"] ELSE {})

RegisteredSpec(d, message_id) ==
    IF message_id \in DOMAIN mreg[d]
    THEN mreg[d][message_id]
    ELSE mreg["base"][message_id]

\* C20: get_message_spec(id) returns the message spec registered under the id
\* when there is one (on a derived definition also when only the parent
\* registered it) and raises MessageSpecNotRegistered exactly when there is
\* none.
C20_GetMessageSpec ==
    \A d \in instances, message_id \in Msgs :
        get_message_spec(d, message_id)
          = IF message_id \in RegisteredSpecIds(d)
            THEN Ok(RegisteredSpec(d, message_id))
            ELSE [tag |-> "MessageSpecNotRegisteredError",
                  value |-> message_id]

\* the derived definition is served a spec only its parent registered, and
\* is refused an id nobody registered
C20_Witness ==
    /\ "derived" \in instances
    /\ \E message_id \in DOMAIN mreg["base"] \ DOMAIN mreg["derived"] :
          get_message_spec("derived", message_id)
            = Ok(mreg["base"][message_id])
    /\ \E message_id \in Msgs :
          get_message_spec("derived", message_id).tag
            = "MessageSpecNotRegisteredError"

----------------------------------------------------------------------------
(* Registrations of every kind on one definition *)

\* the calls leave permission_checker at its default, which no lookup of a
\* handler, an action or a resource by key depends on
NextRegistry ==
    \/ nregs < MaxRegs /\ RegisterHandlerWith("base", DefaultPermissionArgs)
    \/ nregs < MaxRegs /\ RegisterAction("base")
    \/ nregs < MaxRegs /\ RegisterResourceWith("base", DefaultPermissionArgs)
    \/ nregs < MaxRegs /\ RegisterMessage("base")

SpecRegistry == Init /\ [][NextRegistry]_vars

\* C21: registrations are monotone: across any registration call on the
\* definition, whether it succeeds or fails, an is_valid_message(s, m) that was
\* true stays true, a get_action(f, t, m) that was not None stays not None,
\* and a get_resource(s, r) that was not None stays not None.
C21_RegistrationsMonotone ==
    [][/\ \A s \in States, m \in Msgs \cup Handlers :
             is_valid_message("base", s, m) = Ok(TRUE)
                => is_valid_message("base", s, m)' = Ok(TRUE)
       /\ \A f \in States, t \in States, m \in Msgs \cup Actions :
             get_action("base", f, t, m) # Ok(None)
                => get_action("base", f, t, m)' # Ok(None)
       /\ \A s \in States, r \in ResourceIds :
             get_resource("base", s, r) \notin {Ok(None), IllegalStateError(s)}
                => get_resource("base", s, r)'
                     \notin {Ok(None), IllegalStateError(s)}
    ]_vars

\* a message id made valid at init by a register_handler call is still valid
\* after a later register_resource call on the definition, which failed
C21_Witness ==
    /\ nregs >= 2
    /\ outcome = "TypeError"
    /\ \E m \in Msgs \cup Handlers :
          /\ <<"init", m>> \in DOMAIN hreg["base"]
          /\ is_valid_message("base", "init", m) = Ok(TRUE)

----------------------------------------------------------------------------
(* The three read views of the handlers of a state *)

\* message ids a caller may ask about: every id a registration can use and
\* one that none uses
AskedIds == Msgs \cup Handlers \cup {"unregistered"}

AvailableIds(d, s) == {p[2] : p \in get_available_messages(d, s).value}
ValidIds(d, s) == {m \in AskedIds : is_valid_message(d, s, m) = Ok(TRUE)}
HandledIds(d, s) == {m \in AskedIds : get_handler(d, s, m).tag = "ok"}

\* C22: for every state with at least one registered handler the three read
\* views agree: the ids get_available_messages yields, the ids for which
\* is_valid_message is true and the ids for which get_handler returns are the
\* same set, and for any other id get_handler raises UnhandledMessage listing
\* exactly that set.
C22_ReadViewsAgree ==
    \A s \in States : RegisteredIds("base", s) # {} =>
        /\ get_available_messages("base", s).tag = "ok"
        /\ AvailableIds("base", s) = ValidIds("base", s)
        /\ ValidIds("base", s) = HandledIds("base", s)
        /\ \A m \in AskedIds \ HandledIds("base", s) :
              get_handler("base", s, m)
                = UnhandledMessageError(m, HandledIds("base", s))

\* init has two handled ids and other has one, so the views differ by state
C22_Witness ==
    /\ Cardinality(RegisteredIds("base", "init")) = 2
    /\ Cardinality(RegisteredIds("base", "other")) = 1
    /\ HandledIds("base", "init") = RegisteredIds("base", "init")
    /\ get_handler("base", "other", "unregistered").tag = "UnhandledMessageError"

----------------------------------------------------------------------------
(* Two register_action calls in either order *)

\* the arguments of a register_action call that reaches the registrator
ActionCalls ==
    {c \in [message_id : MessageIdArgs, states_from : ActionStateArgs,
            states_to : ActionStateArgs, action : Actions] :
        ~(c.states_from = <<>> /\ c.states_to = <<>>)}

MessageIdOf(c) == IF c.message_id = None THEN name(c.action) ELSE c.message_id

\* the action tables after the call c, from the tables before it
AfterCall(tables, c) ==
    ActionWrites(tables, MessageIdOf(c), c.states_from, c.states_to, c.action)

\* the action tables of a new definition
NoActions == [n \in ActionTables |-> EmptyOf(container_fabric(n))]

\* on the tables an earlier call left (or on empty ones), two calls are made
\* in one order and, from the same tables, in the other
ApplyInBothOrders ==
    /\ aorder = <<>>
    /\ \E before \in {NoActions} \cup {AfterCall(NoActions, c) : c \in ActionCalls},
          first \in ActionCalls, second \in ActionCalls :
          aorder' = <<[first |-> first, second |-> second,
                       one |-> AfterCall(AfterCall(before, first), second),
                       other |-> AfterCall(AfterCall(before, second), first)]>>
    /\ UNCHANGED <<cls, inst, instances, extra_valid_states, nregs, hhist,
                   ahist, mhist, rreg, chk, outcome, qres, rcall>>

NextActionOrder == ApplyInBothOrders

SpecActionOrder == Init /\ [][NextActionOrder]_vars

\* the (tier, key) pairs the call c assigns an action to
WrittenKeys(c) ==
    LET mid == MessageIdOf(c) IN
    IF c.states_to = <<>>
    THEN {"_actions_any_destination"} \X (c.states_from[1] \X {mid})
    ELSE IF c.states_from = <<>>
    THEN {"_actions_any_startpoint"} \X (c.states_to[1] \X {mid})
    ELSE {"_actions"} \X (c.states_from[1] \X c.states_to[1] \X {mid})

\* C23: two register_action calls that write to different tiers, or to
\* different keys of one tier, give the same get_action result for every
\* (from, to, msg) in either order; where both write one key of one tier, the
\* key holds the action of the later call.
C23_ActionOrderIndependent ==
    \A r \in {aorder[i] : i \in DOMAIN aorder} :
        /\ WrittenKeys(r.first) \cap WrittenKeys(r.second) = {} =>
              \A f \in States, t \in States, m \in Msgs \cup Actions :
                  LookupAction(r.one, f, t, m) = LookupAction(r.other, f, t, m)
        /\ \A k \in WrittenKeys(r.first) \cap WrittenKeys(r.second) :
              /\ r.one[k[1]][k[2]] = r.second.action
              /\ r.other[k[1]][k[2]] = r.first.action

\* a call into the exact tier and a call into the any-startpoint tier, both
\* matching (init, init, m1), give the same answers in either order
C23_Witness ==
    \E r \in {aorder[i] : i \in DOMAIN aorder} :
        /\ <<"_actions", <<"init", "init", "m1">>>> \in WrittenKeys(r.first)
        /\ <<"_actions_any_startpoint", <<"init", "m1">>>> \in WrittenKeys(r.second)
        /\ r.first.action = "a1" /\ r.second.action = "a2"
        /\ LookupAction(r.one, "init", "init", "m1") = Ok("a1")
        /\ LookupAction(r.other, "init", "init", "m1") = Ok("a1")
        /\ LookupAction(r.one, "other", "init", "m1") = Ok("a2")
        /\ LookupAction(r.other, "other", "init", "m1") = Ok("a2")

====
